---- MODULE Spec2Model ----
(***************************************************************************)
(* A model of the musical note utilities library (music_note_utils.es6):   *)
(* the PitchClass and Accidental enumerations, the Note value object, the  *)
(* NoteIndex arithmetic and the A4_frequency setting.                      *)
(*                                                                         *)
(* The library is a set of functions over immutable values plus one        *)
(* mutable setting.  The state machine is a client session: each action is *)
(* one call of the library; the state records the call (op, its receiver   *)
(* this, its argument arg, its return value ret) and the setting.          *)
(*                                                                         *)
(* JavaScript strings are sequences of one-character strings.  JavaScript  *)
(* numbers are integers, exact as doubles are below 2^53; a number that    *)
(* may be NaN (the result of parseInt, the reference frequency) is a       *)
(* record [nan, val], an infinity a record [nan, inf], and a fraction      *)
(* passed to from_index a record [num, den].                               *)
(***************************************************************************)
EXTENDS Integers, Sequences

VARIABLES
    A4_frequency,   \* the module-level variable A4_frequency
    receiver,       \* the receiver of the last call as it was when the call was
                    \* made (a Note, or Null for a static call)
    this,           \* the same object when the call returned
    op,             \* the name of the last call
    arg,            \* the argument of the last call
    ret,            \* what the last call returned
    lineage         \* for a transpose whose receiver was itself returned by a
                    \* transpose: that earlier call's receiver and shift

vars == <<A4_frequency, receiver, this, op, arg, ret, lineage>>

-----------------------------------------------------------------------------
(* Bounds of the model *)

\* indices passed to Note.from_index and NoteIndex.* range over -MaxIndex..MaxIndex
MaxIndex == 84
\* octaves passed to the constructor range over (4 - OctaveSpan)..(4 + OctaveSpan)
OctaveSpan == 1
\* shifts passed to transpose: -MaxShift..MaxShift, and a whole octave either way
MaxShift == 2
\* fractions passed to Note.from_index: n / 2 and n / 5, n in -MaxNumerator..MaxNumerator
MaxNumerator == 6
\* strings passed to Note.from_string: every string of at most MaxLen
\* characters of Alphabet, and every letter and accidental followed by a
\* numeral of at most MaxDigits digits
MaxLen == 4
MaxDigits == 3
\* indices passed to NoteIndex.to_frequency: 0, 12, .., 12 * MaxOctavesUp
MaxOctavesUp == 8

Indices == (-MaxIndex)..MaxIndex
Octaves == (4 - OctaveSpan)..(4 + OctaveSpan)
Shifts == ((-MaxShift)..MaxShift) \cup {-12, 12}
\* the number num / den
Ratio(num, den) == [num |-> num, den |-> den]
IndexNumbers ==
    { Ratio(i, 1) : i \in Indices }
        \cup { Ratio(n, d) : n \in (-MaxNumerator)..MaxNumerator, d \in {2, 5} }

-----------------------------------------------------------------------------
(* JavaScript values *)

\* null (the parse failure result), also the receiver of a static call
Null == [null |-> TRUE]
\* undefined (an array read out of range)
Undefined == [undefined |-> TRUE]

\* a number that is not NaN, and NaN
Number(n) == [nan |-> FALSE, val |-> n]
NaN == [nan |-> TRUE, val |-> 0]

\* Infinity and -Infinity
Infinity == [nan |-> FALSE, inf |-> 1]
NegativeInfinity == [nan |-> FALSE, inf |-> -1]

\* isNaN
isNaN(x) == x.nan

\* isFinite
isFinite(x) == ~x.nan /\ "inf" \notin DOMAIN x

\* The JavaScript remainder a % b for b > 0: it has the sign of the dividend.
JsRemainder(a, b) == IF a >= 0 THEN a % b ELSE -((-a) % b)

\* Math.floor(a / b) for integers a and b > 0.
MathFloorDiv(a, b) == a \div b

\* Math.round of the number num / den, den > 0: the nearest integer, a half
\* going up.
MathRound(num, den) == (2 * num + den) \div (2 * den)

-----------------------------------------------------------------------------
(* Strings and numbers *)

DecimalDigits == <<"0", "1", "2", "3", "4", "5", "6", "7", "8", "9">>

\* the white space parseInt and the string-to-number conversion strip
WhiteSpace == {" ", "\t", "\n", "\r"}

\* the value of the character c as a digit, 36 when it is none
DigitValue(c) ==
    IF \E d \in 1..10 : DecimalDigits[d] = c
    THEN (CHOOSE d \in 1..10 : DecimalDigits[d] = c) - 1
    ELSE CASE c \in {"a", "A"} -> 10
           [] c \in {"b", "B"} -> 11
           [] c \in {"c", "C"} -> 12
           [] c \in {"d", "D"} -> 13
           [] c \in {"e", "E"} -> 14
           [] c \in {"f", "F"} -> 15
           [] OTHER -> 36

\* string.slice(start)
slice(string, start) == SubSeq(string, start + 1, Len(string))

\* the string without its leading white space
RECURSIVE TrimStart(_)
TrimStart(string) ==
    IF Len(string) > 0 /\ string[1] \in WhiteSpace
    THEN TrimStart(Tail(string))
    ELSE string

\* the string without its trailing white space
RECURSIVE TrimEnd(_)
TrimEnd(string) ==
    IF Len(string) > 0 /\ string[Len(string)] \in WhiteSpace
    THEN TrimEnd(SubSeq(string, 1, Len(string) - 1))
    ELSE string

\* the longest prefix of the string made of digits of the radix
RECURSIVE DigitPrefix(_, _)
DigitPrefix(string, radix) ==
    IF Len(string) > 0 /\ DigitValue(string[1]) < radix
    THEN <<string[1]>> \o DigitPrefix(Tail(string), radix)
    ELSE <<>>

\* the value of a string of digits of the radix
RECURSIVE DigitsValue(_, _)
DigitsValue(digits, radix) ==
    IF Len(digits) = 0
    THEN 0
    ELSE DigitsValue(SubSeq(digits, 1, Len(digits) - 1), radix) * radix
            + DigitValue(digits[Len(digits)])

\* parseInt(string), the radix left out: white space is skipped, then a sign,
\* then a 0x prefix (radix 16), then the longest run of digits is read and
\* whatever follows it is ignored; NaN when there is no digit
parseInt(string) ==
    LET trimmed == TrimStart(string)
        signed == Len(trimmed) > 0 /\ trimmed[1] \in {"+", "-"}
        sign == IF Len(trimmed) > 0 /\ trimmed[1] = "-" THEN -1 ELSE 1
        unsigned == IF signed THEN Tail(trimmed) ELSE trimmed
        hex == Len(unsigned) >= 2 /\ unsigned[1] = "0" /\ unsigned[2] \in {"x", "X"}
        radix == IF hex THEN 16 ELSE 10
        digits == DigitPrefix(IF hex THEN slice(unsigned, 2) ELSE unsigned, radix)
    IN  IF Len(digits) = 0 THEN NaN ELSE Number(sign * DigitsValue(digits, radix))

\* the decimal digits of a natural number
RECURSIVE NaturalToString(_)
NaturalToString(n) ==
    IF n < 10
    THEN <<DecimalDigits[n + 1]>>
    ELSE NaturalToString(n \div 10) \o <<DecimalDigits[(n % 10) + 1]>>

\* the string of an integer-valued number, as string concatenation makes it
NumberToString(n) ==
    IF n < 0 THEN <<"-">> \o NaturalToString(-n) ELSE NaturalToString(n)

-----------------------------------------------------------------------------
(* PitchClass *)

\* new _PitchClass(index, index_in_octave, letter)
_PitchClass(index, index_in_octave, letter) ==
    [index |-> index, index_in_octave |-> index_in_octave, letter |-> letter]

\* _PitchClass.list
PitchClassList ==
    << _PitchClass(0, 9,  <<"A">>),
       _PitchClass(1, 11, <<"B">>),
       _PitchClass(2, 0,  <<"C">>),
       _PitchClass(3, 2,  <<"D">>),
       _PitchClass(4, 4,  <<"E">>),
       _PitchClass(5, 5,  <<"F">>),
       _PitchClass(6, 7,  <<"G">>) >>

\* PitchClass.with_index
with_index(index) ==
    IF index \in 0..6 THEN PitchClassList[index + 1] ELSE Undefined

PitchClasses == { with_index(i) : i \in 0..6 }

\* The getters PitchClass.A .. PitchClass.G, by letter.
PitchClassByLetter(letter) ==
    CHOOSE p \in PitchClasses : p.letter = letter

\* PitchClass.hasOwnProperty(letter) for a one-character string: the own
\* properties are A .. G and with_index
PitchClassHasOwnProperty(letter) ==
    \E p \in PitchClasses : p.letter = letter

-----------------------------------------------------------------------------
(* Accidental *)

\* new _Accidental(shift, symbol)
_Accidental(shift, symbol) == [shift |-> shift, symbol |-> symbol]

None  == _Accidental(0, <<>>)
Sharp == _Accidental(1, <<"#">>)
Flat  == _Accidental(-1, <<"b">>)

Accidentals == {None, Sharp, Flat}

-----------------------------------------------------------------------------
(* NoteIndex *)

\* normalize with the sign of a negative remainder dropped
normalize_abs(index) ==
    LET remainder == JsRemainder(index, 12)
    IN  IF remainder < 0 THEN -remainder ELSE remainder

\* NoteIndex.normalize
normalize(index) ==
    LET remainder == JsRemainder(index, 12)
    IN  IF remainder < 0 THEN 12 + remainder ELSE remainder

PITCH_CLASS_INDEX_BY_NORMALIZED_INDEX ==
    << 0, 0,
       1,
       2, 2,
       3, 3,
       4,
       5, 5,
       6, 6 >>

\* to_pitch_class pairing an accidental with the note above it
to_pitch_class_above(index) ==
    with_index(<< 0, 1, 1, 2, 3, 3, 4, 4, 5, 6, 6, 0 >>[normalize(index) + 1])

\* NoteIndex.to_pitch_class
to_pitch_class(index) ==
    with_index(PITCH_CLASS_INDEX_BY_NORMALIZED_INDEX[normalize(index) + 1])

\* to_octave counting octaves from A instead of C
to_octave_from_A(index) == 4 + MathFloorDiv(index, 12)

\* to_octave truncating the quotient toward zero instead of flooring it
to_octave_truncated(index) ==
    LET index_relative_to_C4 == index + 9
    IN  4 + (IF index_relative_to_C4 >= 0
             THEN index_relative_to_C4 \div 12
             ELSE -((-index_relative_to_C4) \div 12))

\* NoteIndex.to_octave
to_octave(index) ==
    LET index_relative_to_C4 == index + 9
    IN  4 + MathFloorDiv(index_relative_to_C4, 12)

ACCIDENTAL_NORMALIZED_INDICES == {1, 4, 6, 9, 11}

\* is_accidental looking up the remainder as it is, negative or not
is_accidental_remainder(index) ==
    JsRemainder(index, 12) \in ACCIDENTAL_NORMALIZED_INDICES

\* NoteIndex.is_accidental
is_accidental(index) == normalize(index) \in ACCIDENTAL_NORMALIZED_INDICES

-----------------------------------------------------------------------------
(* Note *)

\* new Note(pitch_class, accidental, octave)
Note(pitch_class, accidental, octave) ==
    [pitch_class |-> pitch_class, accidental |-> accidental, octave |-> octave]

\* Note.prototype.C4_index
C4_index(n) ==
    (n.octave - 4) * 12 + n.pitch_class.index_in_octave + n.accidental.shift

\* Note.prototype.index
index(n) == C4_index(n) - 9

\* Note.prototype.midi_number
midi_number(n) == index(n) + 69

\* from_index spelling an accidental as a flat
from_index_flat(num, den) ==
    LET rounded == MathRound(num, den)
    IN  Note(to_pitch_class(rounded),
             IF is_accidental(rounded) THEN Flat ELSE None,
             to_octave(rounded))

\* Note.from_index, of the number num / den
from_index_of(num, den) ==
    LET rounded == MathRound(num, den)
    IN  Note(to_pitch_class(rounded),
             IF is_accidental(rounded) THEN Sharp ELSE None,
             to_octave(rounded))

\* Note.from_index, of an integer
from_index(i) == from_index_of(i, 1)

\* from_midi_number taking 60 (C4) as the number of A4
from_midi_number_C4(m) == from_index(m - 60)

\* Note.from_midi_number
from_midi_number(m) == from_index(m - 69)

\* Note.prototype.clone
clone(n) == Note(n.pitch_class, n.accidental, n.octave)

\* equals comparing the fields
equals_by_fields(n, other) == n = other

\* Note.prototype.equals
equals(n, other) == index(n) = index(other)

\* transpose adding the shift to the index relative to C4
transpose_from_C4(n, shift) == from_index(C4_index(n) + shift)

\* Note.prototype.transpose
transpose(n, shift) == from_index(index(n) + shift)

\* Note.prototype.natural
natural(n) == Note(n.pitch_class, None, n.octave)

\* sharp derived through the index
sharp_by_index(n) == from_index(index(n) + 1)

\* Note.prototype.sharp
sharp(n) == Note(n.pitch_class, Sharp, n.octave)

\* Note.prototype.flat
flat(n) == Note(n.pitch_class, Flat, n.octave)

\* Note.prototype.is_accidental
note_is_accidental(n) == n.accidental # None

\* Note.prototype.is_natural
is_natural(n) == ~note_is_accidental(n)

\* to_string leaving out the default octave
to_string_default_octave(n) ==
    n.pitch_class.letter \o n.accidental.symbol
        \o (IF n.octave = 4 THEN <<>> ELSE NumberToString(n.octave))

\* Note.prototype.to_string
to_string(n) ==
    n.pitch_class.letter \o n.accidental.symbol \o NumberToString(n.octave)

\* Note.from_string
from_string(string) ==
    IF Len(string) = 0 THEN Null
    ELSE
    LET letter == <<string[1]>> IN
    IF ~PitchClassHasOwnProperty(letter) THEN Null
    ELSE
    LET pitch_class == PitchClassByLetter(letter) IN
    IF Len(string) = 1 THEN Note(pitch_class, None, 4)
    ELSE
    LET accidental ==
            CASE <<string[2]>> = Sharp.symbol -> Sharp
              [] <<string[2]>> = Flat.symbol -> Flat
              [] OTHER -> None
    IN
    IF Len(string) = 2 /\ accidental # None THEN Note(pitch_class, accidental, 4)
    ELSE
    LET octave ==
            IF accidental # None
            THEN parseInt(slice(string, 2))
            ELSE parseInt(slice(string, 1))
    IN
    IF isNaN(octave) THEN Null
    ELSE Note(pitch_class, accidental, octave.val)

-----------------------------------------------------------------------------
(* Frequencies *)

\* a value assigned to A4_frequency: a number, or a string
NumberValue(x) == [type |-> "number", value |-> x]
StringValue(string) == [type |-> "string", value |-> string]

\* the number a string converts to, for strings of white space, signs, decimal
\* digits and other characters that no numeric literal holds: the string is
\* trimmed, the empty string is 0, a signed run of digits is its value, and
\* anything else is NaN
StringToNumber(string) ==
    LET trimmed == TrimEnd(TrimStart(string))
        signed == Len(trimmed) > 0 /\ trimmed[1] \in {"+", "-"}
        sign == IF Len(trimmed) > 0 /\ trimmed[1] = "-" THEN -1 ELSE 1
        unsigned == IF signed THEN Tail(trimmed) ELSE trimmed
    IN  IF Len(trimmed) = 0 THEN Number(0)
        ELSE IF Len(unsigned) > 0 /\ DigitPrefix(unsigned, 10) = unsigned
        THEN Number(sign * DigitsValue(unsigned, 10))
        ELSE NaN

\* +value
ToNumber(value) ==
    IF value.type = "number" THEN value.value ELSE StringToNumber(value.value)

\* set A4_frequency(value): the new value of the variable
set_A4_frequency(value) == ToNumber(value)

\* 2 to the power k, k >= 0
RECURSIVE Pow2(_)
Pow2(k) == IF k = 0 THEN 1 ELSE 2 * Pow2(k - 1)

\* to_frequency with the default frequency of A4
to_frequency_440(i, f) == Number(Pow2(i \div 12) * 440)

\* NoteIndex.to_frequency, for an index a whole number of octaves >= 0 above
\* A4 (the power of two is then an integer) and the frequency f of A4 read
\* from the variable
to_frequency(i, f) ==
    IF isNaN(f) THEN NaN
    ELSE IF ~isFinite(f) THEN f
    ELSE Number(Pow2(i \div 12) * f.val)

\* Note.prototype.frequency
frequency(n, f) == to_frequency(index(n), f)

\* x / y: NaN, an infinity, or the fraction num / den with den > 0 (zero has
\* no sign here)
Divide(x, y) ==
    IF isNaN(x) \/ isNaN(y) THEN NaN
    ELSE IF ~isFinite(x)
    THEN IF ~isFinite(y) THEN NaN
         ELSE IF (y.val >= 0) = (x.inf > 0) THEN Infinity ELSE NegativeInfinity
    ELSE IF ~isFinite(y) THEN [nan |-> FALSE, num |-> 0, den |-> 1]
    ELSE IF y.val = 0
    THEN IF x.val = 0 THEN NaN
         ELSE IF x.val > 0 THEN Infinity ELSE NegativeInfinity
    ELSE IF y.val > 0
    THEN [nan |-> FALSE, num |-> x.val, den |-> y.val]
    ELSE [nan |-> FALSE, num |-> -x.val, den |-> -y.val]

\* whether a / b, a > 0 and b > 0, is a power of two
RECURSIVE IsPowerOfTwo(_, _)
IsPowerOfTwo(a, b) ==
    IF a = b THEN TRUE
    ELSE IF a > b THEN 2 * b <= a /\ IsPowerOfTwo(a, 2 * b)
    ELSE 2 * a <= b /\ IsPowerOfTwo(2 * a, b)

\* the exponent k of a / b = 2^k
RECURSIVE Exponent(_, _)
Exponent(a, b) ==
    IF a = b THEN 0
    ELSE IF a > b THEN Exponent(a, 2 * b) + 1
    ELSE Exponent(2 * a, b) - 1

\* Math.log2 of a quotient that is NaN, infinite, negative, zero or a power
\* of two
log2(q) ==
    IF isNaN(q) THEN NaN
    ELSE IF ~isFinite(q) THEN (IF q.inf > 0 THEN Infinity ELSE NaN)
    ELSE IF q.num < 0 THEN NaN
    ELSE IF q.num = 0 THEN NegativeInfinity
    ELSE Number(Exponent(q.num, q.den))

\* the quotients log2 is defined on above
HasExactLog2(q) ==
    isFinite(q) /\ q.num > 0 => IsPowerOfTwo(q.num, q.den)

\* from_frequency returning the MIDI number of the nearest note
from_frequency_midi(freq, f) ==
    LET log == log2(Divide(freq, f))
    IN  IF isFinite(log) THEN Number(69 + MathRound(log.val * 12, 1)) ELSE log

\* NoteIndex.from_frequency(freq), the frequency f of A4 read from the variable
from_frequency(freq, f) ==
    LET log == log2(Divide(freq, f))
    IN  IF isFinite(log) THEN Number(MathRound(log.val * 12, 1)) ELSE log

\* Note.from_index of a number that may be NaN or infinite: the index
\* normalized is then NaN, the table has no pitch class for it, no accidental
\* includes it, and the octave is that number
from_index_number(x) ==
    IF isFinite(x) THEN from_index(x.val) ELSE Note(Undefined, None, x)

\* Note.from_frequency
note_from_frequency(freq, f) ==
    from_index_number(from_frequency(freq, f))

\* the exception a property read of undefined throws
TypeError == [throws |-> "TypeError"]

\* Note.prototype.index as a number, of a note that may have no pitch class
index_or_throw(n) ==
    IF n.pitch_class = Undefined THEN TypeError ELSE Number(index(n))

-----------------------------------------------------------------------------
(* The client session *)

\* the notes the client constructs: every spelling in the octave range
Notes ==
    { Note(p, a, o) : p \in PitchClasses, a \in Accidentals, o \in Octaves }

Nothing == <<>>

Init ==
    /\ A4_frequency = Number(440)
    /\ receiver = Null
    /\ this = Null
    /\ op = "init"
    /\ arg = Null
    /\ ret = Null
    /\ lineage = Nothing

\* the client holds nothing: the session is as after construction
Idle == op = "init"

\* the frame of a static call: no receiver
Static(name, a) ==
    /\ receiver' = Null
    /\ this' = Null
    /\ op' = name
    /\ arg' = a
    /\ lineage' = Nothing
    /\ UNCHANGED A4_frequency

\* the frame of a method call on receiver n; no method assigns a field of
\* its receiver
Method(n, name, a) ==
    /\ receiver' = n
    /\ this' = n
    /\ op' = name
    /\ arg' = a
    /\ lineage' = Nothing
    /\ UNCHANGED A4_frequency

\* the client drops the values it holds
Discard ==
    /\ ~Idle
    /\ receiver' = Null
    /\ this' = Null
    /\ op' = "init"
    /\ arg' = Null
    /\ ret' = Null
    /\ lineage' = Nothing
    /\ UNCHANGED A4_frequency

New ==
    /\ Idle
    /\ \E p \in PitchClasses, a \in Accidentals, o \in Octaves :
        /\ ret' = Note(p, a, o)
        /\ Static("new", <<p, a, o>>)

FromIndex ==
    /\ Idle
    /\ \E x \in IndexNumbers :
        /\ ret' = from_index_of(x.num, x.den)
        /\ Static("from_index", x)

FromMidiNumber ==
    /\ Idle
    /\ \E i \in Indices :
        /\ ret' = from_midi_number(i + 69)
        /\ Static("from_midi_number", i + 69)

Clone ==
    /\ Idle
    /\ \E n \in Notes :
        /\ ret' = clone(n)
        /\ Method(n, "clone", Null)

Equals ==
    /\ Idle
    /\ \E n \in Notes, other \in Notes :
        /\ ret' = equals(n, other)
        /\ Method(n, "equals", other)

\* n.transpose(shift), on a constructed note or on the note the last
\* transpose returned
Transpose ==
    \E shift \in Shifts :
        \E n \in (IF Idle THEN Notes ELSE IF op = "transpose" THEN {ret} ELSE {}) :
            /\ index(n) + shift \in Indices
            /\ ret' = transpose(n, shift)
            /\ receiver' = n
            /\ this' = n
            /\ op' = "transpose"
            /\ arg' = shift
            /\ lineage' = IF op = "transpose"
                          THEN [origin |-> this, shift |-> arg]
                          ELSE Nothing
            /\ UNCHANGED A4_frequency

Natural ==
    /\ Idle
    /\ \E n \in Notes :
        /\ ret' = natural(n)
        /\ Method(n, "natural", Null)

SharpCall ==
    /\ Idle
    /\ \E n \in Notes :
        /\ ret' = sharp(n)
        /\ Method(n, "sharp", Null)

FlatCall ==
    /\ Idle
    /\ \E n \in Notes :
        /\ ret' = flat(n)
        /\ Method(n, "flat", Null)

Index ==
    /\ Idle
    /\ \E n \in Notes :
        /\ ret' = index(n)
        /\ Method(n, "index", Null)

MidiNumber ==
    /\ Idle
    /\ \E n \in Notes :
        /\ ret' = midi_number(n)
        /\ Method(n, "midi_number", Null)

ToOctave ==
    /\ Idle
    /\ \E i \in Indices :
        /\ ret' = to_octave(i)
        /\ Static("to_octave", i)

ToPitchClass ==
    /\ Idle
    /\ \E i \in Indices :
        /\ ret' = to_pitch_class(i)
        /\ Static("to_pitch_class", i)

IsAccidental ==
    /\ Idle
    /\ \E i \in Indices :
        /\ ret' = is_accidental(i)
        /\ Static("is_accidental", i)

Normalize ==
    /\ Idle
    /\ \E i \in Indices :
        /\ ret' = normalize(i)
        /\ Static("normalize", i)

Next ==
    \/ New
    \/ FromIndex
    \/ FromMidiNumber
    \/ Clone
    \/ Equals
    \/ Transpose
    \/ Natural
    \/ SharpCall
    \/ FlatCall
    \/ Index
    \/ MidiNumber
    \/ ToOctave
    \/ ToPitchClass
    \/ IsAccidental
    \/ Normalize
    \/ Discard

Spec == Init /\ [][Next]_vars

-----------------------------------------------------------------------------
(* Strings: Note.from_string and Note.prototype.to_string *)

Alphabet == {"A", "#", "b", "-", "+", "1", "0", "x", " "}

NumeralDigits == {"0", "1", "2", "9"}

\* a sign or none, then one to MaxDigits digits; or nothing
Numerals ==
    {<<>>} \cup
    { sign \o digits :
        sign \in {<<>>, <<"-">>},
        digits \in UNION { [1..k -> NumeralDigits] : k \in 1..MaxDigits } }

StringInputs ==
    UNION { [1..k -> Alphabet] : k \in 0..MaxLen }
        \cup { p.letter \o a.symbol \o numeral :
                 p \in PitchClasses, a \in Accidentals, numeral \in Numerals }

FromString ==
    /\ Idle
    /\ \E string \in StringInputs :
        /\ ret' = from_string(string)
        /\ Static("from_string", string)

ToStringCall ==
    /\ Idle
    /\ \E n \in Notes :
        /\ ret' = to_string(n)
        /\ Method(n, "to_string", Null)

NextString ==
    \/ FromString
    \/ ToStringCall
    \/ Discard

SpecString == Init /\ [][NextString]_vars

-----------------------------------------------------------------------------
(* Tuning: the A4_frequency setting and the frequency conversions *)

TuningValues ==
    { NumberValue(Number(440)), NumberValue(Number(442)),
      NumberValue(Number(432)), NumberValue(Number(415)),
      NumberValue(Number(0)), NumberValue(NaN), NumberValue(Infinity),
      NumberValue(Number(-440)),
      StringValue(<<"4", "4", "5">>), StringValue(<<"4", "4", "0">>),
      StringValue(<<" ", "4", "4", "2", " ">>), StringValue(<<"-", "1">>),
      StringValue(<<>>), StringValue(<<"a", "4">>), StringValue(<<"4", " ", "5">>) }

OctaveIndices == { 12 * k : k \in 0..MaxOctavesUp }

SetA4Frequency ==
    /\ Idle
    /\ \E value \in TuningValues :
        /\ A4_frequency' = set_A4_frequency(value)
        /\ receiver' = Null
        /\ this' = Null
        /\ op' = "set_A4_frequency"
        /\ arg' = value
        /\ ret' = Null
        /\ lineage' = Nothing

GetA4Frequency ==
    /\ Idle
    /\ ret' = A4_frequency
    /\ Static("get_A4_frequency", Null)

ToFrequency ==
    /\ Idle
    /\ \E i \in OctaveIndices :
        /\ ret' = to_frequency(i, A4_frequency)
        /\ Static("to_frequency", i)

Frequency ==
    /\ Idle
    /\ \E n \in Notes :
        /\ index(n) \in OctaveIndices
        /\ ret' = frequency(n, A4_frequency)
        /\ Method(n, "frequency", Null)

\* the frequencies the client passes while the frequency of A4 is f: f itself,
\* its octaves above, and values that do not depend on it
Frequencies(f) ==
    {f}
        \cup (IF isFinite(f)
              THEN { Number(f.val * Pow2(k)) : k \in 1..MaxOctavesUp }
              ELSE {})
        \cup { Number(v) : v \in {-440, -1, 0, 1, 2, 55, 110, 216, 220, 221,
                                   440, 864, 880, 884, 890, 1760} }
        \cup {NaN, Infinity, NegativeInfinity}

FromFrequency ==
    /\ Idle
    /\ \E freq \in Frequencies(A4_frequency) :
        /\ HasExactLog2(Divide(freq, A4_frequency))
        /\ ret' = from_frequency(freq, A4_frequency)
        /\ Static("from_frequency", freq)

NoteFromFrequency ==
    /\ Idle
    /\ \E freq \in Frequencies(A4_frequency) :
        /\ HasExactLog2(Divide(freq, A4_frequency))
        /\ ret' = note_from_frequency(freq, A4_frequency)
        /\ Static("note_from_frequency", freq)

\* .index() of the note Note.from_frequency returned
IndexOfNoteFromFrequency ==
    /\ op = "note_from_frequency"
    /\ ret' = index_or_throw(ret)
    /\ receiver' = ret
    /\ this' = ret
    /\ op' = "note_from_frequency.index"
    /\ arg' = Null
    /\ lineage' = [frequency |-> arg]
    /\ UNCHANGED A4_frequency

NextTuning ==
    \/ SetA4Frequency
    \/ GetA4Frequency
    \/ ToFrequency
    \/ Frequency
    \/ FromFrequency
    \/ NoteFromFrequency
    \/ IndexOfNoteFromFrequency
    \/ Discard

SpecTuning == Init /\ [][NextTuning]_vars

-----------------------------------------------------------------------------
(* Properties *)

A4 == Note(with_index(0), None, 4)
A4_sharp == Note(with_index(0), Sharp, 4)
A4_flat == Note(with_index(0), Flat, 4)
B4_flat == Note(with_index(1), Flat, 4)
B3 == Note(with_index(1), None, 3)
C5 == Note(with_index(2), None, 5)
G4 == Note(with_index(6), None, 4)

\* C1: for every integer i, Note.from_index(i).index() is i: the note built
\* from a half-step index (pitch class from to_pitch_class, Sharp iff
\* is_accidental, octave from to_octave) has
\* (octave - 4) * 12 + index_in_octave + shift - 9 equal to i.
C1_FromIndexRoundTrip ==
    op = "from_index" /\ arg.den = 1 =>
        /\ index(ret) = arg.num
        /\ (ret.octave - 4) * 12 + ret.pitch_class.index_in_octave
                + ret.accidental.shift - 9 = arg.num

\* from_index(-13) is G#3
C1_Witness ==
    /\ op = "from_index"
    /\ arg = Ratio(-13, 1)
    /\ ret = Note(with_index(6), Sharp, 3)

\* the number of half steps of a note above C0, from its fields
HalfSteps(n) ==
    12 * n.octave + n.pitch_class.index_in_octave + n.accidental.shift

\* C2: a.equals(b) is true exactly when a and b have the same index, whatever
\* their spelling: equality is reflexive and symmetric, A#4 equals Bb4 although
\* their strings differ, and A4 does not equal B3.
C2_EqualsByIndex ==
    op = "equals" =>
        /\ ret = (index(this) = index(arg))
        /\ ret = (HalfSteps(this) = HalfSteps(arg))
        /\ equals(arg, this) = ret
        /\ equals(this, this)
        /\ (this.octave = arg.octave
                /\ this.pitch_class.letter = <<"A">> /\ this.accidental = Sharp
                /\ arg.pitch_class.letter = <<"B">> /\ arg.accidental = Flat
            => ret /\ to_string(this) # to_string(arg))
        /\ (this = A4 /\ arg = B3 => ~ret)

\* A#4.equals(Bb4)
C2_Witness ==
    /\ op = "equals"
    /\ this = A4_sharp
    /\ arg = B4_flat
    /\ ret = TRUE
    /\ to_string(this) = <<"A", "#", "4">>
    /\ to_string(arg) = <<"B", "b", "4">>

\* C3: n.transpose(s) is a note whose index is n.index() + s, for every
\* spelling of n; n.transpose(0) equals n, A4.transpose(-1) equals Ab4 and
\* Ab4.transpose(-1) equals G4.
C3_TransposeAddsShift ==
    op = "transpose" =>
        /\ index(ret) = index(receiver) + arg
        /\ (arg = 0 => equals(ret, receiver))
        /\ (receiver = A4 /\ arg = -1 => equals(ret, A4_flat))
        /\ (receiver = A4_flat /\ arg = -1 => equals(ret, G4))

\* Ab4.transpose(-1) is G4
C3_Witness ==
    /\ op = "transpose"
    /\ receiver = A4_flat
    /\ arg = -1
    /\ ret = G4

\* C4: note.transpose(a).transpose(b) equals note.transpose(a + b).
C4_TransposeComposition ==
    op = "transpose" /\ lineage # Nothing =>
        /\ receiver = transpose(lineage.origin, lineage.shift)
        /\ equals(ret, transpose(lineage.origin, lineage.shift + arg))

\* Cb4.transpose(2).transpose(-12)
C4_Witness ==
    /\ op = "transpose"
    /\ lineage # Nothing
    /\ lineage.origin = Note(with_index(2), Flat, 4)
    /\ lineage.shift = 2
    /\ arg = -12

Letters == {"A", "B", "C", "D", "E", "F", "G"}
Digits == {"0", "1", "2", "3", "4", "5", "6", "7", "8", "9"}

\* the accidental symbol of a spelled note, and what follows it
AccidentalPart(string) ==
    IF Len(string) >= 2 /\ string[2] \in {"#", "b"} THEN <<string[2]>> ELSE <<>>
OctavePart(string) == slice(string, 1 + Len(AccidentalPart(string)))

AllDigits(string) ==
    Len(string) >= 1 /\ \A k \in 1..Len(string) : string[k] \in Digits

\* a sign or none, then digits
SignedInteger(string) ==
    /\ Len(string) >= 1
    /\ AllDigits(IF string[1] \in {"+", "-"} THEN Tail(string) ELSE string)

\* the decimal numeral of an integer: no plus sign, no leading zero, no -0
CanonicalInteger(string) ==
    /\ Len(string) >= 1
    /\ LET digits == IF string[1] = "-" THEN Tail(string) ELSE string
       IN  /\ AllDigits(digits)
           /\ Len(digits) > 1 => digits[1] # "0"
           /\ string # <<"-", "0">>

\* <Letter A-G>[# or b][signed integer octave]
MatchesGrammar(string) ==
    /\ Len(string) >= 1
    /\ string[1] \in Letters
    /\ OctavePart(string) = <<>> \/ SignedInteger(OctavePart(string))

\* C5: Note.from_string returns a Note only for the strings that match the
\* grammar <Letter A-G>[# or b][signed integer octave], and null for every
\* string that does not match it.
C5_NoteOnlyForGrammar ==
    op = "from_string" => (ret # Null <=> MatchesGrammar(arg))

\* C6: to_string is the inverse of from_string on letter, accidental symbol and
\* canonical decimal octave: the note has that letter, accidental and octave
\* and its string is the string parsed; with the octave left out the octave is
\* 4 and the string is the one parsed followed by "4".
C6_ToStringInvertsFromString ==
    op = "from_string" /\ Len(arg) >= 1 /\ arg[1] \in Letters
        /\ (OctavePart(arg) = <<>> \/ CanonicalInteger(OctavePart(arg))) =>
            /\ ret # Null
            /\ ret.pitch_class.letter = <<arg[1]>>
            /\ ret.accidental.symbol = AccidentalPart(arg)
            /\ IF OctavePart(arg) = <<>>
               THEN ret.octave = 4 /\ to_string(ret) = arg \o <<"4">>
               ELSE to_string(ret) = arg
            /\ (OctavePart(arg) = <<"-", "1", "2">> => ret.octave = -12)
            /\ (OctavePart(arg) = <<"9", "0">> => ret.octave = 90)

\* from_string("Bb-12")
C6_Witness ==
    /\ op = "from_string"
    /\ arg = <<"B", "b", "-", "1", "2">>
    /\ ret = Note(with_index(1), Flat, -12)
    /\ to_string(ret) = arg

\* C7: for every integer m, Note.from_midi_number(m).midi_number() is m, the
\* note having index m - 69: 69 is A4, 72 is C5, 59 is B3.
C7_MidiRoundTrip ==
    op = "from_midi_number" =>
        /\ midi_number(ret) = arg
        /\ index(ret) = arg - 69
        /\ (arg = 69 => equals(ret, A4))
        /\ (arg = 72 => equals(ret, C5))
        /\ (arg = 59 => equals(ret, B3))

\* from_midi_number(-13) is B-3
C7_Witness ==
    /\ op = "from_midi_number"
    /\ arg = -13
    /\ ret = Note(with_index(1), None, -3)
    /\ midi_number(ret) = -13

\* C8: A4_frequency is 440 at first; an assignment leaves in it the number its
\* value converts to and nothing else changes it, so that reading it returns
\* the conversion of the last value assigned; and while it is a number (not
\* NaN), NoteIndex.to_frequency(0) and the frequency() of a note of index 0
\* are the A4_frequency of the moment of the call.
C8_ReferencePitchIsLive ==
    /\ A4_frequency = Number(440)
    /\ [][ /\ op' = "set_A4_frequency" =>
                /\ A4_frequency' = ToNumber(arg')
                /\ arg'.type = "number" => A4_frequency' = arg'.value
                /\ arg' = StringValue(<<"4", "4", "5">>) => A4_frequency' = Number(445)
           /\ op' # "set_A4_frequency" => A4_frequency' = A4_frequency
           /\ op' = "get_A4_frequency" => ret' = A4_frequency'
           /\ op' = "to_frequency" /\ arg' = 0 /\ ~isNaN(A4_frequency') =>
                ret' = A4_frequency'
           /\ op' = "frequency" /\ index(receiver') = 0 /\ ~isNaN(A4_frequency') =>
                ret' = A4_frequency'
       ]_vars

\* to_frequency(0) after "445" was assigned
C8_Witness ==
    /\ op = "to_frequency"
    /\ arg = 0
    /\ A4_frequency = Number(445)
    /\ ret = Number(445)

\* C9: n.sharp(), n.flat() and n.natural() return a note of n's pitch class
\* and octave with accidental Sharp, Flat and None, whatever n's accidental
\* (A4.sharp() is spelled A#4, Ab4.sharp() equals A#4), and leave n as it was.
C9_VariantsReplaceAccidental ==
    op \in {"sharp", "flat", "natural"} =>
        /\ ret.pitch_class = receiver.pitch_class
        /\ ret.octave = receiver.octave
        /\ ret.accidental = CASE op = "sharp" -> Sharp
                              [] op = "flat" -> Flat
                              [] op = "natural" -> None
        /\ this = receiver
        /\ (op = "sharp" /\ receiver = A4 => to_string(ret) = <<"A", "#", "4">>)
        /\ (op = "sharp" /\ receiver = A4_flat => equals(ret, A4_sharp))

\* Bb4.sharp() is B#4
C9_Witness ==
    /\ op = "sharp"
    /\ receiver = B4_flat
    /\ this = B4_flat
    /\ ret = Note(with_index(1), Sharp, 4)

\* C10: NoteIndex.to_octave(i) is 4 + floor((i + 9) / 12): the octave changes
\* only at C, going up by one at each index congruent to 3 modulo 12 (1 and 2
\* give 4, 3 and 4 give 5; -11 and -10 give 3, -9 and -8 give 4).
C10_OctaveChangesAtC ==
    op = "to_octave" =>
        /\ 12 * (ret - 4) <= arg + 9
        /\ arg + 9 < 12 * (ret - 4) + 12
        /\ to_octave(arg + 1) = IF (arg + 1 - 3) % 12 = 0 THEN ret + 1 ELSE ret
        /\ (arg \in {1, 2} => ret = 4)
        /\ (arg \in {3, 4} => ret = 5)
        /\ (arg \in {-11, -10} => ret = 3)
        /\ (arg \in {-9, -8} => ret = 4)

\* to_octave(-10) is 3
C10_Witness ==
    /\ op = "to_octave"
    /\ arg = -10
    /\ ret = 3

\* the frequency of A4 is a number other than zero, NaN and the infinities
ReferenceIsFiniteNonZero == isFinite(A4_frequency) /\ A4_frequency.val # 0

\* C11 as stated: whatever was assigned to A4_frequency,
\* NoteIndex.from_frequency(A4_frequency) is 0 and
\* Note.from_frequency(A4_frequency).index() is 0.
C11_ReferenceHasIndexZero ==
    /\ op = "from_frequency" /\ arg = A4_frequency => ret = Number(0)
    /\ op = "note_from_frequency.index" /\ lineage.frequency = A4_frequency =>
            ret = Number(0)

\* C11 amended: while A4_frequency is a finite number other than zero,
\* NoteIndex.from_frequency(A4_frequency) is 0, Note.from_frequency(A4_frequency)
\* is A4 and its index() is 0; while it is zero, NaN or infinite,
\* NoteIndex.from_frequency(A4_frequency) is NaN,
\* Note.from_frequency(A4_frequency) has no pitch class and its index() throws.
C11_FiniteNonZeroReferenceHasIndexZero ==
    /\ op = "from_frequency" /\ arg = A4_frequency =>
            ret = IF ReferenceIsFiniteNonZero THEN Number(0) ELSE NaN
    /\ op = "note_from_frequency" /\ arg = A4_frequency =>
            IF ReferenceIsFiniteNonZero
            THEN ret = A4
            ELSE ret.pitch_class = Undefined
    /\ op = "note_from_frequency.index" /\ lineage.frequency = A4_frequency =>
            ret = IF ReferenceIsFiniteNonZero THEN Number(0) ELSE TypeError

\* Note.from_frequency(415).index() after 415 was assigned
C11_Witness ==
    /\ op = "note_from_frequency.index"
    /\ A4_frequency = Number(415)
    /\ lineage.frequency = Number(415)
    /\ receiver = A4
    /\ ret = Number(0)

\* the slot of a pitch class: the half steps of its natural note above A
Slot(pitch_class) == (pitch_class.index_in_octave + 3) % 12

\* C12: for every integer i, Note.from_index(i) has accidental Sharp when
\* is_accidental(i) and None otherwise, never Flat; its pitch class is
\* to_pitch_class(i), one of the 7 defined classes: the natural note at slot
\* normalize(i), or for an accidental slot the natural note one slot below;
\* so the accidental spellings are A#, C#, D#, F# and G# only.
C12_FromIndexSpellsSharp ==
    /\ op = "from_index" /\ arg.den = 1 =>
        /\ ret.accidental # Flat
        /\ ret.accidental = (IF is_accidental(arg.num) THEN Sharp ELSE None)
        /\ is_accidental(arg.num) <=> (arg.num % 12) \in {1, 4, 6, 9, 11}
        /\ ret.pitch_class = to_pitch_class(arg.num)
        /\ ret.pitch_class \in PitchClasses
        /\ Slot(ret.pitch_class) =
                IF ret.accidental = Sharp
                THEN (arg.num % 12) - 1
                ELSE arg.num % 12
        /\ ret.accidental = Sharp =>
                ret.pitch_class.letter \in
                    {<<"A">>, <<"C">>, <<"D">>, <<"F">>, <<"G">>}
    /\ op = "to_pitch_class" =>
        /\ ret \in PitchClasses
        /\ Slot(ret) \in {arg % 12, (arg % 12) - 1}

\* from_index(-8) is C#4
C12_Witness ==
    /\ op = "from_index"
    /\ arg = Ratio(-8, 1)
    /\ ret = Note(with_index(2), Sharp, 4)

\* C13: for every integer i, negative or not, normalize(i) is the residue of i
\* modulo 12 in 0..11 (normalize(-1) is 11) and is_accidental(i) is true
\* exactly when that residue is one of 1, 4, 6, 9, 11; both have period 12.
C13_AccidentalByResidue ==
    /\ op = "normalize" =>
        /\ ret \in 0..11
        /\ \E q \in (-MaxIndex)..MaxIndex : arg = 12 * q + ret
        /\ ret = arg % 12
        /\ normalize(arg + 12) = ret
        /\ (arg = -1 => ret = 11)
    /\ op = "is_accidental" =>
        /\ ret = (normalize(arg) \in {1, 4, 6, 9, 11})
        /\ ret = (\E q \in (-MaxIndex)..MaxIndex, r \in {1, 4, 6, 9, 11} :
                        arg = 12 * q + r)
        /\ is_accidental(arg + 12) = ret

\* is_accidental(-1)
C13_Witness ==
    /\ op = "is_accidental"
    /\ arg = -1
    /\ ret = TRUE
    /\ normalize(arg) = 11

\* C14: n.transpose(0), the note re-derived from n's index, equals n by index
\* and has n's octave number, except that for n a C flat it is the B of the
\* octave below and for n a B sharp it is the C of the octave above.
C14_RespellingKeepsOctave ==
    op = "transpose" /\ arg = 0 =>
        /\ ret = from_index(index(receiver))
        /\ equals(ret, receiver)
        /\ IF receiver.pitch_class.letter = <<"C">> /\ receiver.accidental = Flat
           THEN /\ ret.pitch_class.letter = <<"B">>
                /\ ret.accidental = None
                /\ ret.octave = receiver.octave - 1
           ELSE IF receiver.pitch_class.letter = <<"B">>
                    /\ receiver.accidental = Sharp
           THEN /\ ret.pitch_class.letter = <<"C">>
                /\ ret.accidental = None
                /\ ret.octave = receiver.octave + 1
           ELSE ret.octave = receiver.octave

\* Cb3.transpose(0) is B2
C14_Witness ==
    /\ op = "transpose"
    /\ arg = 0
    /\ receiver = Note(with_index(2), Flat, 3)
    /\ ret = Note(with_index(1), None, 2)

====
